---- MODULE Spec2Model ----
(***************************************************************************)
(* Todo application: the minimal-API backend of app.Server/TodosApi.cs     *)
(* (GET list, GET by id, POST, PATCH, DELETE over the Todos table) and the *)
(* query-backed client collection of frontend/src/db/todos.ts with the    *)
(* list page, its create form and the editor; and the AppHost's resource   *)
(* graph with the "Generate API client" command of the web frontend.       *)
(*                                                                         *)
(* Strings are sequences of one-character strings.  A nullable value       *)
(* (string?, int?, bool?, DateTimeOffset?) is a sequence of length 0       *)
(* (null) or 1 (the value).                                                *)
(***************************************************************************)
EXTENDS Integers, Sequences, FiniteSets, TLC

VARIABLES
    todos,          \* the Todos table: id -> TodoItem row
    nextId,         \* the identity counter of the key column Id
    clock,          \* DateTimeOffset.UtcNow
    response,       \* the response to the latest HTTP request
    search,         \* the search parameters of the URL: status, sort, q
    hasMounted,     \* App's hasMounted ref
    effectPending,  \* the filter effect of App is due to run
    todoCollection, \* the synced rows of the client collection: id -> TodoItem
    queryState,     \* the todos query: "stale", "fetching" or "idle"
    fetched,        \* the response the fetch in flight will deliver
    pending,        \* the client's requests in flight and awaited invalidations
    toasts,         \* the ids with a "Moved to trash" toast on screen
    activeTodoId,   \* App's activeTodoId state: null or the id of a todo
    mutationError,  \* App's mutationError state: null or a message
    awaiting,       \* the ids whose handleToggle or handleDelete is at its await
    awaitsTransaction,  \* awaiting what collection.update and collection.delete
                    \* return waits until the mutation has persisted or failed
    createForm,     \* the create form: its title value, canSubmit, isSubmitting
    disableWhenInvalid, \* the prop of the form's AppSubmitButton
    submitButton,   \* the Button that AppSubmitButton rendered last
    mutation,       \* the latest mutation handed to onUpdate: key and changes
    resources,      \* the AppHost: resource name -> state of the resource
    apiEndpointAllocated,   \* the https endpoint of the server is allocated
    commandState,   \* the state of the "Generate API client" command
    commandResult   \* the latest execution of the command: inputs and result

serverVars == <<todos, nextId, clock>>
formVars == <<createForm, disableWhenInvalid, submitButton>>
rowVars == <<activeTodoId, mutationError, awaiting>>
clientVars ==
    <<search, hasMounted, effectPending, todoCollection, queryState, fetched,
      pending, toasts, rowVars, awaitsTransaction, formVars, mutation>>
hostVars == <<resources, apiEndpointAllocated, commandState, commandResult>>
vars == <<todos, nextId, clock, response, clientVars, hostVars>>

-----------------------------------------------------------------------------
(* Bounds of the model *)

MaxTodos == 2       \* rows ever inserted
MaxClock == 1       \* ticks of the clock
MaxInFlight == 2    \* client requests in flight at once

-----------------------------------------------------------------------------
(* Nullable values *)

Null == <<>>
Some(x) == <<x>>
HasValue(o) == o /= <<>>
Value(o) == o[1]

Range(s) == { s[i] : i \in DOMAIN s }

\* a status code of the 2xx class: response.ok, EnsureSuccessStatusCode
Success(status) == status \in 200..299

\* the ids of a sequence of items
ItemIds(items) == { items[i].id : i \in 1..Len(items) }

-----------------------------------------------------------------------------
(* Strings *)

IsWhiteSpace(c) == c = " "

RECURSIVE TrimStart(_)
TrimStart(s) ==
    IF s = <<>> THEN <<>>
    ELSE IF IsWhiteSpace(Head(s)) THEN TrimStart(Tail(s))
    ELSE s

RECURSIVE TrimEnd(_)
TrimEnd(s) ==
    IF s = <<>> THEN <<>>
    ELSE IF IsWhiteSpace(s[Len(s)]) THEN TrimEnd(SubSeq(s, 1, Len(s) - 1))
    ELSE s

\* A plausible slip: only leading white space removed
TrimStartOnly(s) == TrimStart(s)

\* A plausible slip: only the trailing white space is removed
TrimEndOnly(s) == TrimEnd(s)

\* string.Trim()
Trim(s) == TrimEnd(TrimStart(s))

\* A plausible slip: only null rejected
IsNullOnly(o) == ~HasValue(o)

\* string.IsNullOrWhiteSpace on a string? value
IsNullOrWhiteSpace(o) ==
    \/ ~HasValue(o)
    \/ \A i \in 1..Len(Value(o)) : IsWhiteSpace(Value(o)[i])

-----------------------------------------------------------------------------
(* 32-bit integer arithmetic (C# int, unchecked) *)

Int32Max == 2147483647
Half == 65536

\* The int product a * b, wrapped to 32 bits two's complement, computed in
\* 16-bit halves; for 0 <= a <= Int32Max and 0 <= b <= MaxPageSize.
MulInt32(a, b) ==
    LET lo == (a % Half) * b
        hi == ((a \div Half) * b + (lo \div Half)) % Half
    IN  IF hi >= Half \div 2
        THEN (hi - Half) * Half + (lo % Half)
        ELSE hi * Half + (lo % Half)

Min(a, b) == IF a < b THEN a ELSE b

-----------------------------------------------------------------------------
(* Entities and DTOs *)

\* record TodoItemDto.FromEntity: a field-by-field copy of the row
FromEntity(item) ==
    [id |-> item.id, title |-> item.title, notes |-> item.notes,
     isCompleted |-> item.isCompleted, sortOrder |-> item.sortOrder,
     dueDate |-> item.dueDate, createdAt |-> item.createdAt,
     updatedAt |-> item.updatedAt]

\* No request has been served yet
NoResponse ==
    [op |-> "none", status |-> 0, id |-> 0, request |-> Null, item |-> Null,
     items |-> <<>>, total |-> Null]

\* Results.Ok / Created / NotFound / BadRequest / NoContent of a single-item
\* route, kept with the request it answers
Result(op, status, id, request, item) ==
    [op |-> op, status |-> status, id |-> id, request |-> request, item |-> item,
     items |-> <<>>, total |-> Null]

\* The response of the list route: Results.Ok(result) with the X-Total-Count
\* header, or the error response when the query throws
ListResult(status, request, items, total) ==
    [op |-> "LIST", status |-> status, id |-> 0, request |-> request, item |-> Null,
     items |-> items, total |-> total]

-----------------------------------------------------------------------------
(* Sorting of the list query *)

DefaultPageSize == 20
MaxPageSize == 100

CharRank(c) ==
    CASE c = " " -> 0
      [] c \in {"a", "A"} -> 1
      [] c \in {"b", "B"} -> 2
      [] OTHER -> 3

\* ORDER BY [Title] under the database's case-insensitive collation
RECURSIVE StrLess(_, _)
StrLess(s, t) ==
    IF t = <<>> THEN FALSE
    ELSE IF s = <<>> THEN TRUE
    ELSE IF CharRank(Head(s)) /= CharRank(Head(t))
         THEN CharRank(Head(s)) < CharRank(Head(t))
    ELSE StrLess(Tail(s), Tail(t))

\* A plausible slip: the default order is oldest first
BeforeOldestFirstByDefault(a, b, sort) ==
    CASE sort = Some("createdAt")  -> a.createdAt < b.createdAt
      [] sort = Some("-createdAt") -> a.createdAt > b.createdAt
      [] sort = Some("title")      -> StrLess(a.title, b.title)
      [] sort = Some("-title")     -> StrLess(b.title, a.title)
      [] sort = Some("order")      -> a.sortOrder < b.sortOrder
      [] sort = Some("-order")     -> a.sortOrder > b.sortOrder
      [] OTHER                     -> a.createdAt < b.createdAt

\* a comes strictly before b under ApplySort's ORDER BY for the sort parameter
Before(a, b, sort) ==
    CASE sort = Some("createdAt")  -> a.createdAt < b.createdAt
      [] sort = Some("-createdAt") -> a.createdAt > b.createdAt
      [] sort = Some("title")      -> StrLess(a.title, b.title)
      [] sort = Some("-title")     -> StrLess(b.title, a.title)
      [] sort = Some("order")      -> a.sortOrder < b.sortOrder
      [] sort = Some("-order")     -> a.sortOrder > b.sortOrder
      [] OTHER                     -> a.createdAt > b.createdAt

\* The row orders the database may return for ORDER BY without a tie-breaker:
\* every permutation of the rows with no pair out of order.
ApplySort(rows, sort) ==
    LET n == Cardinality(rows)
    IN  { s \in [1..n -> rows] :
            /\ \A i, j \in 1..n : i /= j => s[i] /= s[j]
            /\ \A i, j \in 1..n : i < j => ~Before(s[j], s[i], sort) }

\* Skip(skip).Take(take) of a sequence
SkipTake(s, skip, take) ==
    IF skip >= Len(s) THEN <<>>
    ELSE SubSeq(s, skip + 1, Min(Len(s), skip + take))

-----------------------------------------------------------------------------
(* The endpoints of MapTodosApi *)

Rows == { todos[i] : i \in DOMAIN todos }

\* A plausible slip: the filter keeps the completed rows whatever value is asked
WhereCompletedOnly(rows, completed) ==
    IF HasValue(completed)
    THEN { item \in rows : item.isCompleted }
    ELSE rows

\* if (completed.HasValue) query = query.Where(item => item.IsCompleted == completed.Value)
WhereCompleted(rows, completed) ==
    IF HasValue(completed)
    THEN { item \in rows : item.isCompleted = Value(completed) }
    ELSE rows

\* GET /api/todos?completed=&page=&pageSize=&sort=&q=
\* (the handler binds completed, page, pageSize and sort; q is not bound)
GetTodos(request) ==
    LET page == IF request.page < 1 THEN 1 ELSE request.page
        pageSize == IF request.pageSize < 1 THEN DefaultPageSize
                    ELSE Min(request.pageSize, MaxPageSize)
        query == WhereCompleted(Rows, request.completed)
        totalCount == Cardinality(query)
        skip == MulInt32(page - 1, pageSize)
    IN  /\ IF skip < 0
           THEN \* OFFSET of a negative number of rows: the query throws
                response' = ListResult(500, request, <<>>, Null)
           ELSE \E sorted \in ApplySort(query, request.sort) :
                  LET items == SkipTake(sorted, skip, pageSize)
                  IN response' =
                       ListResult(200, request,
                                  [i \in 1..Len(items) |-> FromEntity(items[i])],
                                  Some(totalCount))
        /\ UNCHANGED serverVars

\* GET /api/todos/{id}
GetTodo(id) ==
    /\ response' = IF id \in DOMAIN todos
                   THEN Result("GET", 200, id, Null, Some(FromEntity(todos[id])))
                   ELSE Result("GET", 404, id, Null, Null)
    /\ UNCHANGED serverVars

\* A plausible slip: the key computed from the rows present
NewIdFromRows ==
    IF DOMAIN todos = {} THEN 1
    ELSE (CHOOSE i \in DOMAIN todos : \A j \in DOMAIN todos : j <= i) + 1

\* The key the database gives an inserted row: the IDENTITY column Id
NewId == nextId

\* POST /api/todos
PostTodo(request) ==
    LET title == IF HasValue(request.title)
                 THEN Some(Trim(Value(request.title))) ELSE Null
    IN  IF IsNullOrWhiteSpace(title)
        THEN /\ response' = Result("POST", 400, 0, request, Null)
             /\ UNCHANGED serverVars
        ELSE LET now == clock
                 item == [id |-> NewId,
                          title |-> Value(title),
                          notes |-> IF HasValue(request.notes)
                                    THEN Some(Trim(Value(request.notes))) ELSE Null,
                          dueDate |-> request.dueDate,
                          sortOrder |-> IF HasValue(request.sortOrder)
                                        THEN Value(request.sortOrder) ELSE 0,
                          isCompleted |-> FALSE,
                          createdAt |-> now,
                          updatedAt |-> now]
             IN /\ nextId <= MaxTodos
                /\ todos' = (NewId :> item) @@ todos
                /\ nextId' = nextId + 1
                /\ response' = Result("POST", 201, item.id, request, Some(FromEntity(item)))
                /\ UNCHANGED clock

\* A plausible slip: notes assigned as in POST, also when the body has none
UpdateFieldsAssigningNotes(item, request) ==
    [item EXCEPT
      !.title = IF HasValue(request.title) THEN Trim(Value(request.title)) ELSE @,
      !.notes = IF HasValue(request.notes)
                THEN Some(Trim(Value(request.notes))) ELSE Null,
      !.dueDate = IF HasValue(request.dueDate) \/ request.clearDueDate
                  THEN (IF request.clearDueDate THEN Null ELSE request.dueDate)
                  ELSE @,
      !.sortOrder = IF HasValue(request.sortOrder) THEN Value(request.sortOrder) ELSE @,
      !.isCompleted = IF HasValue(request.isCompleted)
                      THEN Value(request.isCompleted) ELSE @]

\* A plausible slip: a supplied due date wins over clearDueDate
UpdateFieldsPreferringDueDate(item, request) ==
    [item EXCEPT
      !.title = IF HasValue(request.title) THEN Trim(Value(request.title)) ELSE @,
      !.notes = IF HasValue(request.notes)
                THEN Some(Trim(Value(request.notes))) ELSE @,
      !.dueDate = IF HasValue(request.dueDate) THEN request.dueDate
                  ELSE IF request.clearDueDate THEN Null ELSE @,
      !.sortOrder = IF HasValue(request.sortOrder) THEN Value(request.sortOrder) ELSE @,
      !.isCompleted = IF HasValue(request.isCompleted)
                      THEN Value(request.isCompleted) ELSE @]

\* The assignments of PATCH to the tracked entity, one per supplied field
UpdateFields(item, request) ==
    [item EXCEPT
      !.title = IF HasValue(request.title) THEN Trim(Value(request.title)) ELSE @,
      !.notes = IF HasValue(request.notes)
                THEN Some(Trim(Value(request.notes))) ELSE @,
      !.dueDate = IF HasValue(request.dueDate) \/ request.clearDueDate
                  THEN (IF request.clearDueDate THEN Null ELSE request.dueDate)
                  ELSE @,
      !.sortOrder = IF HasValue(request.sortOrder) THEN Value(request.sortOrder) ELSE @,
      !.isCompleted = IF HasValue(request.isCompleted)
                      THEN Value(request.isCompleted) ELSE @]

\* A plausible slip: the title is validated after the other fields were
\* assigned and saved
PatchTodoSavingBeforeValidation(id, request) ==
    IF id \notin DOMAIN todos
    THEN /\ response' = Result("PATCH", 404, id, request, Null)
         /\ UNCHANGED serverVars
    ELSE IF HasValue(request.title) /\ IsNullOrWhiteSpace(Some(Trim(Value(request.title))))
    THEN /\ todos' = [todos EXCEPT ![id] =
                       [UpdateFields(@, [request EXCEPT !.title = Null])
                          EXCEPT !.updatedAt = clock]]
         /\ response' = Result("PATCH", 400, id, request, Null)
         /\ UNCHANGED <<nextId, clock>>
    ELSE LET item == [UpdateFields(todos[id], request) EXCEPT !.updatedAt = clock]
         IN /\ todos' = [todos EXCEPT ![id] = item]
            /\ response' = Result("PATCH", 200, id, request, Some(FromEntity(item)))
            /\ UNCHANGED <<nextId, clock>>

\* PATCH /api/todos/{id}
PatchTodo(id, request) ==
    IF id \notin DOMAIN todos
    THEN /\ response' = Result("PATCH", 404, id, request, Null)
         /\ UNCHANGED serverVars
    ELSE IF HasValue(request.title) /\ IsNullOrWhiteSpace(Some(Trim(Value(request.title))))
    THEN /\ response' = Result("PATCH", 400, id, request, Null)
         /\ UNCHANGED serverVars
    ELSE LET item == [UpdateFields(todos[id], request) EXCEPT !.updatedAt = clock]
         IN /\ todos' = [todos EXCEPT ![id] = item]
            /\ response' = Result("PATCH", 200, id, request, Some(FromEntity(item)))
            /\ UNCHANGED <<nextId, clock>>

\* DELETE /api/todos/{id}
DeleteTodo(id) ==
    IF id \notin DOMAIN todos
    THEN /\ response' = Result("DELETE", 404, id, Null, Null)
         /\ UNCHANGED serverVars
    ELSE /\ todos' = [i \in DOMAIN todos \ {id} |-> todos[i]]
         /\ response' = Result("DELETE", 204, id, Null, Null)
         /\ UNCHANGED <<nextId, clock>>

\* POST /api/todos/{id}/restore: MapTodosApi maps no such route
RestoreTodo(id) ==
    /\ response' = Result("RESTORE", 404, id, Null, Null)
    /\ UNCHANGED serverVars

\* The clock advances between requests
Tick ==
    /\ clock < MaxClock
    /\ clock' = clock + 1
    /\ UNCHANGED <<todos, nextId, response>>

\* A step of the API alone: the client is not involved
Api(step) == step /\ UNCHANGED <<clientVars, hostVars>>

-----------------------------------------------------------------------------
(* The client: db/todos.ts and the list page App.tsx *)

NoSearch == [status |-> "all", sort |-> "newest", q |-> <<>>]

\* The search parameters validateSearch lets through
SearchInputs ==
    [status : {"all", "open", "done"}, sort : {"newest", "due"},
     q : {<<>>, <<"A">>}]

\* A plausible slip: the status filter is not sent
QueryFnWithoutStatus(s) ==
    [completed |-> Null, page |-> 1, pageSize |-> 100,
     sort |-> IF s.sort = "due" THEN Some("due") ELSE Null,
     q |-> IF Trim(s.q) /= <<>> THEN Some(Trim(s.q)) ELSE Null]

\* queryFn: the query string built from window.location.search
QueryFn(s) ==
    [completed |-> IF s.status = "open" THEN Some(FALSE)
                   ELSE IF s.status = "done" THEN Some(TRUE) ELSE Null,
     page |-> 1, pageSize |-> 100,
     sort |-> IF s.sort = "due" THEN Some("due") ELSE Null,
     q |-> IF Trim(s.q) /= <<>> THEN Some(Trim(s.q)) ELSE Null]

\* A plausible slip: dueDate == null, which is true of undefined as well
ToUpdateRequestLooseNull(changes) ==
    [title |-> IF "title" \in DOMAIN changes THEN Some(changes.title) ELSE Null,
     notes |-> IF "notes" \in DOMAIN changes THEN changes.notes ELSE Null,
     dueDate |-> IF "dueDate" \in DOMAIN changes THEN changes.dueDate ELSE Null,
     clearDueDate |-> "dueDate" \in DOMAIN changes => changes.dueDate = Null,
     sortOrder |-> IF "sortOrder" \in DOMAIN changes
                   THEN Some(changes.sortOrder) ELSE Null,
     isCompleted |-> IF "isCompleted" \in DOMAIN changes
                     THEN Some(changes.isCompleted) ELSE Null]

\* toUpdateRequest: changes holds the fields the draft assigned
ToUpdateRequest(changes) ==
    [title |-> IF "title" \in DOMAIN changes THEN Some(changes.title) ELSE Null,
     notes |-> IF "notes" \in DOMAIN changes THEN changes.notes ELSE Null,
     dueDate |-> IF "dueDate" \in DOMAIN changes THEN changes.dueDate ELSE Null,
     clearDueDate |-> "dueDate" \in DOMAIN changes /\ changes.dueDate = Null,
     sortOrder |-> IF "sortOrder" \in DOMAIN changes
                   THEN Some(changes.sortOrder) ELSE Null,
     isCompleted |-> IF "isCompleted" \in DOMAIN changes
                     THEN Some(changes.isCompleted) ELSE Null]

\* parseTodos and the sync of the query collection: the rows become the
\* items of the response, keyed by getKey
Synced(items) ==
    [id \in ItemIds(items) |-> CHOOSE item \in Range(items) : item.id = id]

\* queryClient.invalidateQueries({ queryKey: todosQueryKey }): the query is
\* stale and a fetch in flight is cancelled
InvalidateQueries ==
    /\ queryState' = "stale"
    /\ fetched' = NoResponse

\* The rows the list shows: the synced rows without those a delete in flight hides
VisibleIds ==
    DOMAIN todoCollection \ { op.id : op \in { o \in pending : o.kind = "delete" } }

Busy(id) == \E op \in pending : op.id = id

\* The message of the Error that onUpdate, onDelete, restoreTodo and the
\* create form's onSubmit throw when the result has an error
ErrorMessage(kind) ==
    CASE kind = "update" -> "Could not update this todo."
      [] kind = "delete" -> "Could not delete this todo."
      [] kind = "restore" -> "Could not restore this todo."
      [] kind = "create" -> "Could not save your todo."

\* The row of a todo: isActive disables its checkbox, Edit and Delete
IsActive(id) == activeTodoId = Some(id)

\* A handler of the list is at its await for the transaction of the request
Awaited(op) == op.kind \in {"update", "delete"} /\ op.id \in awaiting

Sent(kind, id, status) == [kind |-> kind, id |-> id, status |-> status, phase |-> "sent"]

\* The create form as useAppForm builds it and createForm.reset() leaves it
NewForm == [title |-> <<>>, canSubmit |-> TRUE, isSubmitting |-> FALSE]

\* A plausible slip: a submission in progress is not looked at while the
\* form can submit
IsDisabledWhenInvalidOnly(disableWhenInvalidProp, canSubmit, isSubmitting) ==
    IF disableWhenInvalidProp THEN ~canSubmit ELSE isSubmitting

\* AppSubmitButton: the isDisabled of the button
IsDisabled(disableWhenInvalidProp, canSubmit, isSubmitting) ==
    IF disableWhenInvalidProp THEN ~canSubmit \/ isSubmitting ELSE isSubmitting

\* AppSubmitButton: form.Subscribe renders the Button from the form state
Render(disableWhenInvalidProp, form) ==
    [isDisabled |-> IsDisabled(disableWhenInvalidProp, form.canSubmit, form.isSubmitting),
     isPending |-> form.isSubmitting]

\* The filter effect of App: the first run only sets hasMounted
FilterEffect ==
    /\ effectPending
    /\ effectPending' = FALSE
    /\ hasMounted' = TRUE
    /\ IF hasMounted THEN InvalidateQueries ELSE UNCHANGED <<queryState, fetched>>
    /\ UNCHANGED <<serverVars, response, search, todoCollection, pending, toasts,
                   rowVars, formVars>>

\* navigate({ search }) of handleStatusChange, handleSortChange and the
\* debounced search input
Navigate(next) ==
    /\ hasMounted
    /\ ~effectPending
    /\ next /= search
    /\ search' = next
    /\ effectPending' = TRUE
    /\ UNCHANGED <<serverVars, response, hasMounted, todoCollection, queryState,
                   fetched, pending, toasts, rowVars, formVars>>

HandleStatusChange(nextValue) == Navigate([search EXCEPT !.status = nextValue])
HandleSortChange(nextValue) == Navigate([search EXCEPT !.sort = nextValue])
SearchInputChange(normalized) == Navigate([search EXCEPT !.q = normalized])

\* refreshTodos
RefreshTodos ==
    /\ hasMounted
    /\ queryState = "idle"
    /\ mutationError' = Null
    /\ InvalidateQueries
    /\ UNCHANGED <<serverVars, response, search, hasMounted, effectPending,
                   todoCollection, pending, toasts, activeTodoId, awaiting, formVars>>

\* The query runs queryFn: the request reaches the server
FetchStart ==
    /\ queryState = "stale"
    /\ GetTodos(QueryFn(search))
    /\ fetched' = response'
    /\ queryState' = "fetching"
    /\ UNCHANGED <<search, hasMounted, effectPending, todoCollection, pending, toasts,
                   rowVars, formVars>>

\* The response of the fetch arrives: the collection is synced and the
\* invalidations awaiting the refetch resolve.  onUpdate, onDelete and
\* restoreTodo return: a handler at its await goes on (handleDelete adds
\* the toast) and ends in its finally, a toast whose Undo returned is closed
FetchComplete ==
    /\ queryState = "fetching"
    /\ queryState' = "idle"
    /\ fetched' = NoResponse
    /\ todoCollection' = IF fetched.status = 200 THEN Synced(fetched.items)
                         ELSE todoCollection
    /\ pending' = { op \in pending : op.phase = "sent" }
    /\ createForm' = IF \E op \in pending : op.kind = "create" /\ op.phase = "syncing"
                     THEN NewForm ELSE createForm
    /\ LET ended == { op \in pending : op.phase = "syncing" }
           resumed == { op \in ended : Awaited(op) }
       IN  /\ awaiting' = awaiting \ { op.id : op \in resumed }
           /\ activeTodoId' = IF resumed /= {} THEN Null ELSE activeTodoId
           /\ toasts' = (toasts \cup { op.id : op \in { o \in resumed : o.kind = "delete" } })
                           \ { op.id : op \in { o \in ended : o.kind = "restore" } }
    /\ UNCHANGED <<serverVars, response, search, hasMounted, effectPending,
                   mutationError, disableWhenInvalid>>
    /\ submitButton' = Render(disableWhenInvalid, createForm')

\* The title field of the create form changes: the onChange validator runs
FieldChange(title) ==
    /\ hasMounted
    /\ title /= createForm.title
    /\ createForm' = [createForm EXCEPT !.title = title,
                                        !.canSubmit = Trim(title) /= <<>>]
    /\ UNCHANGED <<serverVars, response, search, hasMounted, effectPending,
                   todoCollection, queryState, fetched, pending, toasts, rowVars,
                   disableWhenInvalid>>
    /\ submitButton' = Render(disableWhenInvalid, createForm')

\* The submit button of the create form is pressed: createForm.handleSubmit
\* validates, and onSubmit calls postApiTodos with the trimmed title
CreateSubmit ==
    /\ hasMounted
    /\ ~submitButton.isDisabled
    /\ Cardinality(pending) < MaxInFlight
    /\ IF Trim(createForm.title) = <<>>
       THEN /\ createForm' = [createForm EXCEPT !.canSubmit = FALSE]
            /\ UNCHANGED <<serverVars, response, pending, mutationError>>
       ELSE /\ mutationError' = Null
            /\ PostTodo([title |-> Some(Trim(createForm.title)), notes |-> Null,
                         dueDate |-> Null, sortOrder |-> Null])
            /\ pending' = pending \cup {Sent("create", response'.id, response'.status)}
            /\ createForm' = [createForm EXCEPT !.isSubmitting = TRUE]
    /\ UNCHANGED <<search, hasMounted, effectPending, todoCollection, queryState,
                   fetched, toasts, activeTodoId, awaiting, disableWhenInvalid>>
    /\ submitButton' = Render(disableWhenInvalid, createForm')

NoMutation == [key |-> 0, changes |-> <<>>]

\* collection.update(key, draft => ...): changes holds the properties the
\* draft assigned a value other than the original's
Mutation(original, assigned) ==
    [key |-> original.id,
     changes |-> [k \in { a \in DOMAIN assigned : assigned[a] /= original[a] }
                    |-> assigned[k]]]

\* onUpdate: patchApiTodosById with toUpdateRequest(changes)
OnUpdate(m) ==
    /\ PatchTodo(m.key, ToUpdateRequest(m.changes))
    /\ pending' = pending \cup {Sent("update", m.key, response'.status)}

\* The editor's form is submitted: the draft takes the values of the form
EditorSubmit(id, value) ==
    /\ id \in VisibleIds
    /\ ~Busy(id)
    /\ Cardinality(pending) < MaxInFlight
    /\ Trim(value.title) /= <<>>
    /\ mutation' = Mutation(todoCollection[id],
                            [title |-> Trim(value.title),
                             notes |-> Some(Trim(value.notes)),
                             dueDate |-> value.dueDate,
                             isCompleted |-> value.isCompleted,
                             updatedAt |-> clock])
    /\ OnUpdate(mutation')
    /\ UNCHANGED <<search, hasMounted, effectPending, todoCollection, queryState,
                   fetched, toasts, rowVars, formVars>>

\* setActiveTodoId(id), setMutationError(null) and the await of
\* handleToggle and handleDelete.  What collection.update and
\* collection.delete return is the library's transaction: the handler either
\* stays at its await until the mutation has persisted or failed, or goes on
\* at once, through its try block into its finally
HandlerStart(id) ==
    /\ mutationError' = Null
    /\ IF awaitsTransaction
       THEN activeTodoId' = Some(id) /\ awaiting' = awaiting \cup {id}
       ELSE activeTodoId' = Null /\ awaiting' = awaiting

\* handleToggle and onUpdate: patchApiTodosById with the draft's changes.
\* One request per todo is in flight at a time
HandleToggle(id) ==
    /\ id \in VisibleIds
    /\ ~IsActive(id)
    /\ ~Busy(id)
    /\ Cardinality(pending) < MaxInFlight
    /\ HandlerStart(id)
    /\ mutation' = Mutation(todoCollection[id],
                            [isCompleted |-> ~todoCollection[id].isCompleted,
                             updatedAt |-> clock])
    /\ OnUpdate(mutation')
    /\ UNCHANGED <<search, hasMounted, effectPending, todoCollection, queryState,
                   fetched, toasts, formVars>>

\* handleDelete and onDelete: deleteApiTodosById; past its await the handler
\* adds the "Moved to trash" toast
HandleDelete(id) ==
    /\ id \in VisibleIds
    /\ ~IsActive(id)
    /\ ~Busy(id)
    /\ Cardinality(pending) < MaxInFlight
    /\ HandlerStart(id)
    /\ DeleteTodo(id)
    /\ pending' = pending \cup {Sent("delete", id, response'.status)}
    /\ toasts' = IF awaitsTransaction THEN toasts ELSE toasts \cup {id}
    /\ UNCHANGED <<search, hasMounted, effectPending, todoCollection, queryState,
                   fetched, formVars>>

\* The toast's Undo and restoreTodo: postApiTodosByIdRestore
Undo(id) ==
    /\ id \in toasts
    /\ ~Busy(id)
    /\ Cardinality(pending) < MaxInFlight
    /\ RestoreTodo(id)
    /\ pending' = pending \cup {Sent("restore", id, response'.status)}
    /\ UNCHANGED <<search, hasMounted, effectPending, todoCollection, queryState,
                   fetched, toasts, rowVars, formVars>>

\* The response to a client request arrives: on success the todos query is
\* invalidated and the caller awaits the refetch; on an error the caller
\* throws: a list handler at its await sets the message and ends in its
\* finally, the toast's onAction sets the message and the toast is closed,
\* the create form's onSubmit sets the message
Settle(op) ==
    /\ op \in pending
    /\ op.phase = "sent"
    /\ IF Success(op.status)
       THEN /\ InvalidateQueries
            /\ pending' = (pending \ {op}) \cup {[op EXCEPT !.phase = "syncing"]}
            /\ UNCHANGED <<toasts, rowVars>>
       ELSE /\ pending' = pending \ {op}
            /\ UNCHANGED <<queryState, fetched>>
            /\ toasts' = IF op.kind = "restore" THEN toasts \ {op.id} ELSE toasts
            /\ mutationError' = IF Awaited(op) \/ op.kind \in {"restore", "create"}
                                THEN Some(ErrorMessage(op.kind)) ELSE mutationError
            /\ activeTodoId' = IF Awaited(op) THEN Null ELSE activeTodoId
            /\ awaiting' = IF Awaited(op) THEN awaiting \ {op.id} ELSE awaiting
    /\ createForm' = IF op.kind = "create" /\ ~Success(op.status)
                     THEN [createForm EXCEPT !.isSubmitting = FALSE] ELSE createForm
    /\ UNCHANGED <<serverVars, response, search, hasMounted, effectPending,
                   todoCollection, disableWhenInvalid>>
    /\ submitButton' = Render(disableWhenInvalid, createForm')

\* useLiveQuery(q => q.from({ todo: todoCollection }).orderBy(createdAt,
\* "desc")): the rows of the collection, newest first; rows created at the
\* same instant come in any order
LiveQuery ==
    LET rows == { todoCollection[id] : id \in DOMAIN todoCollection }
        n == Cardinality(rows)
    IN  { s \in [1..n -> rows] :
            /\ \A i, j \in 1..n : i /= j => s[i] /= s[j]
            /\ \A i, j \in 1..n : i < j => s[i].createdAt >= s[j].createdAt }

\* String.prototype.toLowerCase
ToLowerCase(s) ==
    [i \in DOMAIN s |-> CASE s[i] = "A" -> "a" [] s[i] = "B" -> "b" [] OTHER -> s[i]]

\* String.prototype.includes
Includes(hay, needle) ==
    \E i \in 0..(Len(hay) - Len(needle)) : SubSeq(hay, i + 1, i + Len(needle)) = needle

\* visibleTodos: `${todo.title} ${todo.notes ?? ""}`.toLowerCase()
Haystack(todo) ==
    ToLowerCase(todo.title \o <<" ">> \o
                (IF HasValue(todo.notes) THEN Value(todo.notes) ELSE <<>>))

\* A plausible slip: a todo without a due date comes before one with a due date
CompareNullDueFirst(a, b) ==
    CASE a.dueDate = Null /\ b.dueDate = Null -> b.createdAt - a.createdAt
      [] a.dueDate = Null -> -1
      [] b.dueDate = Null -> 1
      [] Value(a.dueDate) /= Value(b.dueDate) -> Value(a.dueDate) - Value(b.dueDate)
      [] OTHER -> b.createdAt - a.createdAt

\* visibleTodos: the comparator of the sort by due date
Compare(a, b) ==
    CASE a.dueDate = Null /\ b.dueDate = Null -> b.createdAt - a.createdAt
      [] a.dueDate = Null -> 1
      [] b.dueDate = Null -> -1
      [] Value(a.dueDate) /= Value(b.dueDate) -> Value(a.dueDate) - Value(b.dueDate)
      [] OTHER -> b.createdAt - a.createdAt

\* Array.prototype.sort with the comparator: a stable sort
RECURSIVE Sort(_)
Sort(s) ==
    IF s = <<>> THEN <<>>
    ELSE LET init == Sort(SubSeq(s, 1, Len(s) - 1))
             x == s[Len(s)]
             later == { i \in DOMAIN init : Compare(init[i], x) > 0 }
             k == IF later = {} THEN Len(init) + 1
                  ELSE CHOOSE i \in later : \A j \in later : i <= j
         IN  SubSeq(init, 1, k - 1) \o <<x>> \o SubSeq(init, k, Len(init))

\* visibleTodos: the rows of the live query filtered by the status and the
\* trimmed query of the URL, and sorted by due date unless the sort is newest
VisibleTodos(rows, s) ==
    LET normalizedQuery == ToLowerCase(Trim(s.q))
        byStatus == SelectSeq(rows, LAMBDA todo :
                        CASE s.status = "open" -> ~todo.isCompleted
                          [] s.status = "done" -> todo.isCompleted
                          [] OTHER -> TRUE)
        filtered == IF normalizedQuery = <<>> THEN byStatus
                    ELSE SelectSeq(byStatus, LAMBDA todo :
                             Includes(Haystack(todo), normalizedQuery))
    IN  IF s.sort = "newest" THEN filtered ELSE Sort(filtered)

\* The library the page was built with does not change while it runs
Client(step) == step /\ UNCHANGED <<hostVars, awaitsTransaction>>

\* A step of the page that hands no mutation to onUpdate
Page(step) == Client(step) /\ UNCHANGED mutation

-----------------------------------------------------------------------------
(* The AppHost: the resource graph and the "Generate API client" command *)

ResourceNames == {"sql", "database", "server", "clientgen", "webfrontend"}

\* AddDatabase: the database is a child of the SQL server resource
ParentOf(name) == IF name = "database" THEN {"sql"} ELSE {}

\* A plausible slip: clientgen does not wait for the server
WaitsForExceptClientgen(name) ==
    CASE name = "server" -> {"database"}
      [] name = "webfrontend" -> {"server"}
      [] OTHER -> {}

\* The WaitFor calls of the resource graph
WaitsFor(name) ==
    CASE name = "server" -> {"database"}
      [] name = "clientgen" -> {"server"}
      [] name = "webfrontend" -> {"server"}
      [] OTHER -> {}

\* WaitFor: the dependency is running and its health checks pass
Ready(name) == resources[name] = "Healthy"

\* CommandOptions.UpdateState of the "Generate API client" command
UpdateState(isAllocated) == IF isAllocated THEN "Enabled" ELSE "Disabled"

\* The resource snapshots are published: the command's UpdateState runs
Published == commandState' = UpdateState(apiEndpointAllocated')

HostStep(step) == step /\ Published /\ UNCHANGED <<serverVars, response, clientVars>>

\* The orchestrator allocates the https endpoint of the server
AllocateEndpoint ==
    /\ ~apiEndpointAllocated
    /\ apiEndpointAllocated' = TRUE
    /\ UNCHANGED <<resources, commandResult>>

\* A resource leaves the waiting state: everything it waits for is ready
ResourceStart(name) ==
    /\ resources[name] = "Waiting"
    /\ \A dependency \in WaitsFor(name) \cup ParentOf(name) : Ready(dependency)
    /\ resources' = [resources EXCEPT ![name] = "Starting"]
    /\ UNCHANGED <<apiEndpointAllocated, commandResult>>

ResourceRunning(name) ==
    /\ resources[name] = "Starting"
    /\ resources' = [resources EXCEPT ![name] = "Running"]
    /\ UNCHANGED <<apiEndpointAllocated, commandResult>>

\* The health checks of a running resource pass (the server's: /health)
ResourceHealthy(name) ==
    /\ resources[name] = "Running"
    /\ resources' = [resources EXCEPT ![name] = "Healthy"]
    /\ UNCHANGED <<apiEndpointAllocated, commandResult>>

\* A resource exits: the clientgen script ends, another resource stops
ResourceExit(name) ==
    /\ resources[name] \in {"Running", "Healthy"}
    /\ resources' = [resources EXCEPT ![name] = "Exited"]
    /\ UNCHANGED <<apiEndpointAllocated, commandResult>>

\* string.TrimEnd('/')
RECURSIVE TrimEndSlash(_)
TrimEndSlash(s) ==
    IF s /= <<>> /\ s[Len(s)] = "/" THEN TrimEndSlash(SubSeq(s, 1, Len(s) - 1)) ELSE s

NoCommandResult ==
    [outcome |-> "none", message |-> <<>>, openApiUrl |-> <<>>, started |-> FALSE,
     inputs |-> <<>>]

CommandResult(outcome, message, openApiUrl, started, inputs) ==
    [outcome |-> outcome, message |-> message, openApiUrl |-> openApiUrl,
     started |-> started, inputs |-> <<inputs>>]

\* A plausible slip: the exit code of pnpm is not looked at
RunOpenApiTsIgnoringExitCode(inputs) ==
    LET openApiUrl == TrimEndSlash(Value(inputs.apiUrl)) \o <<"/openapi/v1.json">>
    IN  IF ~inputs.directoryExists
        THEN CommandResult("Failure", <<"Frontend directory not found">>, <<>>, FALSE, inputs)
        ELSE IF IsNullOrWhiteSpace(inputs.apiUrl)
        THEN CommandResult("Failure", <<"API endpoint URL not available.">>, <<>>, FALSE, inputs)
        ELSE IF inputs.start = "throws"
        THEN CommandResult("Exception", <<>>, openApiUrl, FALSE, inputs)
        ELSE IF inputs.start = "null"
        THEN CommandResult("Failure", <<"Failed to start pnpm.">>, openApiUrl, FALSE, inputs)
        ELSE CommandResult("Success", <<>>, openApiUrl, TRUE, inputs)

\* RunOpenApiTsAsync.  inputs: directoryExists, apiUrl (nullable), start (what
\* Process.Start does: "started", "null" or "throws"), exitCode, errorOutput
RunOpenApiTsAsync(inputs) ==
    LET openApiUrl == TrimEndSlash(Value(inputs.apiUrl)) \o <<"/openapi/v1.json">>
    IN  IF ~inputs.directoryExists
        THEN CommandResult("Failure", <<"Frontend directory not found">>, <<>>, FALSE, inputs)
        ELSE IF IsNullOrWhiteSpace(inputs.apiUrl)
        THEN CommandResult("Failure", <<"API endpoint URL not available.">>, <<>>, FALSE, inputs)
        ELSE IF inputs.start = "throws"
        THEN CommandResult("Exception", <<>>, openApiUrl, FALSE, inputs)
        ELSE IF inputs.start = "null"
        THEN CommandResult("Failure", <<"Failed to start pnpm.">>, openApiUrl, FALSE, inputs)
        ELSE IF inputs.exitCode /= 0
        THEN CommandResult("Failure",
                           IF IsNullOrWhiteSpace(Some(inputs.errorOutput))
                           THEN <<"openapi-ts failed with exit code", inputs.exitCode>>
                           ELSE Trim(inputs.errorOutput),
                           openApiUrl, TRUE, inputs)
        ELSE CommandResult("Success", <<>>, openApiUrl, TRUE, inputs)

\* The command is executed from the dashboard
ExecuteCommand(inputs) ==
    /\ commandState = "Enabled"
    /\ commandResult' = RunOpenApiTsAsync(inputs)
    /\ UNCHANGED <<resources, apiEndpointAllocated>>

-----------------------------------------------------------------------------
(* Requests *)

Ids == 1..(MaxTodos + 1)

TitleInputs ==
    {Null, Some(<<>>), Some(<<" ">>), Some(<<" ", "a", " ">>), Some(<<"b">>)}
NotesInputs == {Null, Some(<<"b", " ">>)}
DueDateInputs == {Null, Some(1), Some(2)}
SortOrderInputs == {Null, Some(1)}
IsCompletedInputs == {Null, Some(TRUE), Some(FALSE)}

\* record CreateTodoRequest(Title, Notes, DueDate, SortOrder)
CreateTodoRequest ==
    [title : TitleInputs, notes : NotesInputs, dueDate : DueDateInputs,
     sortOrder : SortOrderInputs]

\* record UpdateTodoRequest(Title, Notes, DueDate, SortOrder, IsCompleted, ClearDueDate)
UpdateTodoRequest ==
    [title : TitleInputs, notes : NotesInputs, dueDate : DueDateInputs,
     sortOrder : SortOrderInputs, isCompleted : IsCompletedInputs,
     clearDueDate : BOOLEAN]

\* The query string of GET /api/todos
ListRequest ==
    [completed : {Null, Some(TRUE), Some(FALSE)},
     page : {-1, 0, 1, 2, 1073741825, Int32Max},
     pageSize : {-1, 0, 1, 2, 100, 101},
     sort : {Null, Some("createdAt"), Some("-createdAt"), Some("title"),
             Some("-title"), Some("order"), Some("-order"), Some("due"),
             Some("Title")},
     q : {Null, Some(<<"b">>), Some(<<"A">>)}]

\* The body of the tests' PATCH: new UpdateTodoRequest(null, null, null, null, true, false)
NoUpdate ==
    [title |-> Null, notes |-> Null, dueDate |-> Null, sortOrder |-> Null,
     isCompleted |-> Null, clearDueDate |-> FALSE]

-----------------------------------------------------------------------------
(* Specification of the API: the life cycle of todos *)

LifecycleCreates ==
    { r \in CreateTodoRequest :
        \/ r.notes = Null /\ r.dueDate = Null /\ r.sortOrder = Null
        \/ r.notes /= Null /\ r.dueDate = Some(1) /\ r.sortOrder /= Null }

LifecycleUpdates ==
    { NoUpdate,
      [NoUpdate EXCEPT !.isCompleted = Some(TRUE)],
      [NoUpdate EXCEPT !.title = Some(<<"b">>)],
      [NoUpdate EXCEPT !.title = Some(<<" ", "a", " ">>)],
      [NoUpdate EXCEPT !.title = Some(<<" ">>), !.isCompleted = Some(TRUE)],
      [NoUpdate EXCEPT !.title = Some(<<" ">>), !.notes = Some(<<"b", " ">>),
                       !.dueDate = Some(2), !.sortOrder = Some(1)] }

LifecycleLists ==
    { r \in ListRequest :
        /\ r.completed \in {Null, Some(TRUE)}
        /\ r.page \in {1, 2}
        /\ r.pageSize \in {1, 100}
        /\ r.sort = Null
        /\ r.q = Null }

\* The database is empty and the page has just been loaded
Init ==
    /\ todos = <<>>
    /\ nextId = 1
    /\ clock = 0
    /\ response = NoResponse
    /\ search \in SearchInputs
    /\ hasMounted = FALSE
    /\ effectPending = TRUE
    /\ todoCollection = <<>>
    /\ queryState = "stale"
    /\ fetched = NoResponse
    /\ pending = {}
    /\ toasts = {}
    /\ activeTodoId = Null
    /\ mutationError = Null
    /\ awaiting = {}
    /\ awaitsTransaction \in BOOLEAN
    /\ createForm = NewForm
    /\ disableWhenInvalid \in BOOLEAN
    /\ submitButton = Render(disableWhenInvalid, createForm)
    /\ resources = [name \in ResourceNames |-> "Waiting"]
    /\ apiEndpointAllocated = FALSE
    /\ commandState = UpdateState(FALSE)
    /\ commandResult = NoCommandResult
    /\ mutation = NoMutation

\* The list page at "/" without search parameters
InitPage == Init /\ search = NoSearch /\ disableWhenInvalid

\* The API alone: no page is loaded, and no step reads the page's library
InitApi == InitPage /\ awaitsTransaction

\* The list page, sorted newest first: its AppSubmitButton leaves
\* disableWhenInvalid at its default
InitClient == Init /\ disableWhenInvalid /\ search.sort = "newest"

Next ==
    \/ \E request \in LifecycleCreates : Api(PostTodo(request))
    \/ \E id \in Ids, request \in LifecycleUpdates : Api(PatchTodo(id, request))
    \/ \E id \in Ids : Api(DeleteTodo(id))
    \/ \E id \in Ids : Api(RestoreTodo(id))
    \/ \E id \in Ids : Api(GetTodo(id))
    \/ \E request \in LifecycleLists : Api(GetTodos(request))
    \/ Api(Tick)

Spec == InitApi /\ [][Next]_vars

-----------------------------------------------------------------------------
(* Specification of the API: updates of one todo, every combination of fields *)

MaxPatchTodos == 1

PatchCreates ==
    { r \in CreateTodoRequest :
        /\ r.title = Some(<<"b">>)
        /\ \/ r.notes = Null /\ r.dueDate = Null /\ r.sortOrder = Null
           \/ r.notes /= Null /\ r.dueDate = Some(1) /\ r.sortOrder /= Null }

PatchUpdates ==
    { r \in UpdateTodoRequest :
        /\ r.title \in {Null, Some(<<" ">>), Some(<<" ", "a", " ">>)}
        /\ r.dueDate \in {Null, Some(2)} }

NextPatch ==
    \/ \E request \in PatchCreates : nextId <= MaxPatchTodos /\ Api(PostTodo(request))
    \/ \E id \in 1..MaxPatchTodos, request \in PatchUpdates : Api(PatchTodo(id, request))
    \/ Api(Tick)

SpecPatch == InitApi /\ [][NextPatch]_vars

-----------------------------------------------------------------------------
(* Specification of the API: list queries over todos that differ in every field *)

ListCreates ==
    { r \in CreateTodoRequest :
        \/ r.title = Some(<<"b">>) /\ r.notes = Null /\ r.sortOrder = Null
             /\ r.dueDate \in {Null, Some(2)}
        \/ r.title = Some(<<" ", "a", " ">>) /\ r.notes /= Null /\ r.sortOrder /= Null
             /\ r.dueDate = Some(1) }

ListUpdates == { [NoUpdate EXCEPT !.isCompleted = Some(TRUE)] }

ListQueries ==
    { r \in ListRequest :
        /\ r.page \in {1, 2, Int32Max}
        /\ r.pageSize \in {1, 100}
        /\ r.sort \in {Null, Some("due")}
        /\ r.q \in {Null, Some(<<"A">>)} }

NextList ==
    \/ \E request \in ListCreates : Api(PostTodo(request))
    \/ \E id \in Ids, request \in ListUpdates : Api(PatchTodo(id, request))
    \/ \E request \in ListQueries : Api(GetTodos(request))
    \/ Api(Tick)

SpecList == InitApi /\ [][NextList]_vars

-----------------------------------------------------------------------------
(* Specification of the API: the pages of the list *)

\* Todos as the list page creates them (sortOrder 0), or with a sortOrder
PageCreates ==
    { r \in CreateTodoRequest :
        /\ r.title = Some(<<"b">>) /\ r.notes = Null /\ r.dueDate = Null }

PageUpdates == { [NoUpdate EXCEPT !.isCompleted = Some(TRUE)] }

PageQueries ==
    { r \in ListRequest :
        /\ r.completed \in {Null, Some(FALSE)}
        /\ r.page \in {-1, 1, 2, 1073741825, Int32Max}
        /\ r.pageSize \in {0, 1, 2, 101}
        /\ r.sort \in {Null, Some("order")}
        /\ r.q = Null }

NextPage ==
    \/ \E request \in PageCreates : Api(PostTodo(request))
    \/ \E id \in Ids, request \in PageUpdates : Api(PatchTodo(id, request))
    \/ \E request \in PageQueries : Api(GetTodos(request))
    \/ Api(Tick)

SpecPage == InitApi /\ [][NextPage]_vars

-----------------------------------------------------------------------------
(* Specification of the API: the orders of the list *)

SortCreates ==
    { r \in CreateTodoRequest :
        /\ r.title \in {Some(<<"b">>), Some(<<" ", "a", " ">>)}
        /\ r.notes = Null /\ r.dueDate = Null }

SortQueries ==
    { r \in ListRequest :
        /\ r.completed = Null
        /\ r.page = 1
        /\ r.pageSize \in {1, 100}
        /\ r.sort /= Some("due")
        /\ r.q = Null }

NextSort ==
    \/ \E request \in SortCreates : Api(PostTodo(request))
    \/ \E request \in SortQueries : Api(GetTodos(request))
    \/ Api(Tick)

SpecSort == InitApi /\ [][NextSort]_vars

-----------------------------------------------------------------------------
(* Specification of the client working against the API *)

CreateTitles == { <<"a", " ">> }

NextClient ==
    \/ Page(FilterEffect)
    \/ \E nextValue \in {"all", "open", "done"} : Page(HandleStatusChange(nextValue))
    \/ \E normalized \in {<<>>, <<"A">>} : Page(SearchInputChange(normalized))
    \/ Page(RefreshTodos)
    \/ Page(FetchStart)
    \/ Page(FetchComplete)
    \/ \E title \in CreateTitles : Page(FieldChange(title))
    \/ Page(CreateSubmit)
    \/ \E id \in Ids : Client(HandleToggle(id))
    \/ \E id \in Ids : Page(HandleDelete(id))
    \/ \E id \in Ids : Page(Undo(id))
    \/ \E op \in pending : Page(Settle(op))

SpecClient == InitClient /\ [][NextClient]_vars

-----------------------------------------------------------------------------
(* Specification of the rows of the list: the checkbox, Delete and the   *)
(* toast's Undo, while another tab of the browser deletes todos          *)

RowCreates ==
    { r \in CreateTodoRequest :
        /\ r.title = Some(<<"b">>) /\ r.notes = Null
        /\ r.dueDate = Null /\ r.sortOrder = Null }

NextRows ==
    \/ \E request \in RowCreates : Api(PostTodo(request))
    \/ \E id \in Ids : Api(DeleteTodo(id))
    \/ Page(FilterEffect)
    \/ Page(RefreshTodos)
    \/ Page(FetchStart)
    \/ Page(FetchComplete)
    \/ \E id \in Ids : Client(HandleToggle(id))
    \/ \E id \in Ids : Page(HandleDelete(id))
    \/ \E id \in Ids : Page(Undo(id))
    \/ \E op \in pending : Page(Settle(op))

SpecRows == InitPage /\ [][NextRows]_vars

-----------------------------------------------------------------------------
(* Specification of the displayed list: todos that differ in title, notes, *)
(* due date, creation time and completion, under each filter of the URL    *)

VisibleCreates ==
    { r \in CreateTodoRequest :
        /\ r.sortOrder = Null
        /\ \/ r.title = Some(<<" ", "a", " ">>) /\ r.notes /= Null
           \/ r.title = Some(<<"b">>) /\ r.notes = Null /\ r.dueDate /= Some(2) }

\* The values of the search input, trimmed by its effect
VisibleQueries == { <<>>, <<"A">>, <<"a", " ", "b">> }

\* The todos are stored before the page is opened
BeforeLoad == ~hasMounted /\ queryState = "stale"

NextVisible ==
    \/ \E request \in VisibleCreates : BeforeLoad /\ Api(PostTodo(request))
    \/ BeforeLoad /\ nextId > 1
         /\ Api(PatchTodo(1, [NoUpdate EXCEPT !.isCompleted = Some(TRUE)]))
    \/ BeforeLoad /\ Api(Tick)
    \/ Page(FilterEffect)
    \/ Page(FetchStart)
    \/ Page(FetchComplete)
    \/ \E nextValue \in {"all", "open", "done"} : Page(HandleStatusChange(nextValue))
    \/ \E nextValue \in {"newest", "due"} : Page(HandleSortChange(nextValue))
    \/ \E normalized \in VisibleQueries : Page(SearchInputChange(normalized))

SpecVisible == InitPage /\ [][NextVisible]_vars

-----------------------------------------------------------------------------
(* Specification of the client's updates: the checkbox of the list, the editor *)

MaxEditTodos == 1

EditCreates ==
    { r \in CreateTodoRequest :
        /\ r.title = Some(<<"b">>) /\ r.notes = Some(<<"b", " ">>)
        /\ r.sortOrder = Some(1) /\ r.dueDate \in {Null, Some(1)} }

\* PATCH requests that set and clear the due date
DueUpdates ==
    { r \in UpdateTodoRequest :
        /\ r.title = Null /\ r.notes = Null /\ r.sortOrder = Null
        /\ r.isCompleted = Null /\ r.dueDate \in {Null, Some(2)} }

\* The values of the editor's form
EditValues ==
    [title : {<<"b">>}, notes : {<<"b">>}, dueDate : {Null, Some(1), Some(2)},
     isCompleted : BOOLEAN]

NextEdit ==
    \/ \E request \in EditCreates : nextId <= MaxEditTodos /\ Api(PostTodo(request))
    \/ \E id \in 1..MaxEditTodos, request \in DueUpdates : Api(PatchTodo(id, request))
    \/ Api(Tick)
    \/ Page(FilterEffect)
    \/ Page(FetchStart)
    \/ Page(FetchComplete)
    \/ Page(RefreshTodos)
    \/ \E id \in 1..MaxEditTodos : Client(HandleToggle(id))
    \/ \E id \in 1..MaxEditTodos, value \in EditValues : Client(EditorSubmit(id, value))
    \/ \E op \in pending : Page(Settle(op))

SpecEdit == InitPage /\ [][NextEdit]_vars

-----------------------------------------------------------------------------
(* Specification of the create form and its submit button *)

FormTitles == { <<>>, <<" ">>, <<"a", " ">>, <<"b">> }

InitForm == Init /\ search = NoSearch

NextForm ==
    \/ Page(FilterEffect)
    \/ \E title \in FormTitles : Page(FieldChange(title))
    \/ Page(CreateSubmit)
    \/ \E op \in pending : Page(Settle(op))
    \/ Page(FetchStart)
    \/ Page(FetchComplete)
    \/ Page(RefreshTodos)

SpecForm == InitForm /\ [][NextForm]_vars

-----------------------------------------------------------------------------
(* Specification of the AppHost *)

CommandInputs ==
    [directoryExists : BOOLEAN,
     apiUrl : {Null, Some(<<" ">>), Some(<<"u">>), Some(<<"u", "/">>)},
     start : {"started", "null", "throws"},
     exitCode : {0, 1},
     errorOutput : {<<>>, <<" ">>, <<" ", "e", " ">>}]

NextAppHost ==
    \/ HostStep(AllocateEndpoint)
    \/ \E name \in ResourceNames : HostStep(ResourceStart(name))
    \/ \E name \in ResourceNames : HostStep(ResourceRunning(name))
    \/ \E name \in ResourceNames : HostStep(ResourceHealthy(name))
    \/ \E name \in ResourceNames : HostStep(ResourceExit(name))
    \/ \E inputs \in CommandInputs : HostStep(ExecuteCommand(inputs))

SpecAppHost == InitApi /\ [][NextAppHost]_vars

-----------------------------------------------------------------------------
(* Vocabulary of the properties *)

\* the string is null, empty or all white space
Blank(o) == ~HasValue(o) \/ Value(o) \in {<<>>, <<" ">>, <<" ", " ">>}

\* t is s without its leading and trailing white space
IsTrimOf(t, s) ==
    /\ t /= <<>> => t[1] /= " " /\ t[Len(t)] /= " "
    /\ \E i \in 0..Len(s) :
         /\ i + Len(t) <= Len(s)
         /\ \A k \in 1..Len(s) :
              IF k > i /\ k <= i + Len(t) THEN s[k] = t[k - i] ELSE s[k] = " "

\* the ids given out so far, and those among them whose todo was deleted
IssuedIds == 1..(nextId - 1)
DeletedIds == IssuedIds \ DOMAIN todos

Lower(c) == CASE c = "A" -> "a" [] c = "B" -> "b" [] OTHER -> c

\* the string hay contains the string needle, ignoring letter case
ContainsIgnoreCase(hay, needle) ==
    \E i \in 0..(Len(hay) - Len(needle)) :
      \A k \in 1..Len(needle) : Lower(hay[i + k]) = Lower(needle[k])

\* the todo's title or notes contain s, ignoring letter case
MatchesSearch(item, s) ==
    \/ ContainsIgnoreCase(item.title, s)
    \/ HasValue(item.notes) /\ ContainsIgnoreCase(Value(item.notes), s)

\* the stored todos whose completion state the request's completed filter admits
MatchingCompleted(completed) ==
    { id \in DOMAIN todos :
        HasValue(completed) => todos[id].isCompleted = Value(completed) }

\* the page size a request asks for
AskedPageSize(request) ==
    IF request.pageSize < 1 THEN 20
    ELSE IF request.pageSize > 100 THEN 100 ELSE request.pageSize

\* a list response with a body
Listed == response.op = "LIST" /\ response.status = 200

-----------------------------------------------------------------------------
(* C1 *)

\* C1: a POST /api/todos whose title is null, empty or only white space is
\* answered 400 Bad Request and adds no todo: the stored todos are the same
\* before and after the request.
C1_BlankTitleIsRejected ==
    [][ (response'.op = "POST" /\ Blank(response'.request.title))
          => (response'.status = 400 /\ todos' = todos /\ nextId' = nextId) ]_vars

\* a white-space title was rejected while a todo was stored
C1_Witness ==
    /\ response.op = "POST"
    /\ response.request.title = Some(<<" ">>)
    /\ response.status = 400
    /\ DOMAIN todos /= {}

-----------------------------------------------------------------------------
(* C2 *)

\* the step is a POST of a title that is not blank after trimming
C2_Created ==
    /\ response'.op = "POST"
    /\ ~Blank(response'.request.title)
    /\ response' /= response \/ todos' /= todos

-----------------------------------------------------------------------------
(* C3 *)

\* C3: after DELETE /api/todos/{id} on an existing todo returns 204 No
\* Content, GET /api/todos/{id} returns 404 Not Found and no GET /api/todos
\* list response contains that id, for as long as the todo has not been
\* restored.
C3_DeletedStaysGone ==
    [][ \* the DELETE answers 204 for a stored todo and takes it out
        /\ (response'.op = "DELETE" /\ response'.id \in DOMAIN todos
              /\ response' /= response)
             => (response'.status = 204 /\ response'.id \notin DOMAIN todos')
        \* a deleted todo stays out unless a restore of it succeeds
        /\ \A id \in DeletedIds :
             \/ id \notin DOMAIN todos'
             \/ response'.op = "RESTORE" /\ response'.id = id
                  /\ Success(response'.status)
        \* no deleted todo is found by GET or listed
        /\ \A id \in IssuedIds' \ DOMAIN todos' :
             /\ (response'.op = "GET" /\ response'.id = id) => response'.status = 404
             /\ response'.op = "LIST" => id \notin ItemIds(response'.items)
      ]_vars

\* a GET of a deleted todo was answered 404 after another todo was created
C3_Witness ==
    /\ response.op = "GET"
    /\ response.id = 1
    /\ response.status = 404
    /\ DOMAIN todos = {2}

-----------------------------------------------------------------------------
(* C4 *)

\* C4: after a todo has been deleted with DELETE /api/todos/{id}, POST
\* /api/todos/{id}/restore returns a success status, and from then on GET
\* /api/todos/{id} succeeds and the GET /api/todos list includes a todo with
\* that id.
C4_RestoreAfterDelete ==
    [][ \A id \in DeletedIds :
          RestoreTodo(id) => (Success(response'.status) /\ id \in DOMAIN todos') ]_vars

-----------------------------------------------------------------------------
(* C9 *)

\* the step is a PATCH of a stored todo whose body passes validation
C9_Patched ==
    /\ clock' = clock
    /\ response'.op = "PATCH"
    /\ response'.id \in DOMAIN todos
    /\ ~HasValue(response'.request.title)
         \/ Value(response'.request.title) \notin {<<>>, <<" ">>, <<" ", " ">>}

\* what C9 says of every field but title and notes
C9_Frame(old, new, request) ==
    /\ response'.status = 200
    /\ response'.item = Some(new)
    /\ DOMAIN todos' = DOMAIN todos
    /\ \A i \in DOMAIN todos \ {old.id} : todos'[i] = todos[i]
    /\ new.sortOrder = IF HasValue(request.sortOrder)
                       THEN Value(request.sortOrder) ELSE old.sortOrder
    /\ new.isCompleted = IF HasValue(request.isCompleted)
                         THEN Value(request.isCompleted) ELSE old.isCompleted
    /\ (~HasValue(request.dueDate) /\ ~request.clearDueDate)
         => new.dueDate = old.dueDate
    /\ new.id = old.id
    /\ new.createdAt = old.createdAt
    /\ new.updatedAt = clock

\* C9 as stated: a PATCH /api/todos/{id} on an existing todo with a valid body
\* returns 200 with the updated todo and changes exactly the supplied fields:
\* title, notes, sortOrder and isCompleted take the request's value when it is
\* non-null and otherwise keep their stored value; id and createdAt never
\* change; updatedAt is set to the time of the request even when the body
\* supplies no field.
C9_TakesRequestValue ==
    [][ C9_Patched =>
          LET request == response'.request
              old == todos[response'.id]
              new == todos'[response'.id]
          IN  /\ C9_Frame(old, new, request)
              /\ new.title = IF HasValue(request.title)
                             THEN Value(request.title) ELSE old.title
              /\ new.notes = IF HasValue(request.notes)
                             THEN request.notes ELSE old.notes ]_vars

\* C9 (amended): as above, with title and notes taking the request's value
\* without its leading and trailing white space.
C9_TakesTrimmedRequestValue ==
    [][ C9_Patched =>
          LET request == response'.request
              old == todos[response'.id]
              new == todos'[response'.id]
          IN  /\ C9_Frame(old, new, request)
              /\ IF HasValue(request.title)
                 THEN IsTrimOf(new.title, Value(request.title))
                 ELSE new.title = old.title
              /\ IF HasValue(request.notes)
                 THEN HasValue(new.notes)
                        /\ IsTrimOf(Value(new.notes), Value(request.notes))
                 ELSE new.notes = old.notes ]_vars

\* a body with no field was applied to a todo that has notes, later than its creation
C9_Witness ==
    /\ response.op = "PATCH"
    /\ response.status = 200
    /\ response.request = NoUpdate
    /\ HasValue(todos[response.id].notes)
    /\ todos[response.id].updatedAt > todos[response.id].createdAt

-----------------------------------------------------------------------------
(* C5 *)

\* C5: for every GET /api/todos?completed=b, every todo in the response has
\* isCompleted equal to b, and when the stored todos with isCompleted = b
\* number at most the page size, page 1 contains all of them; without the
\* completed parameter no todo is excluded because of its completion state.
C5_CompletedFilter ==
    Listed =>
      LET request == response.request
          matching == MatchingCompleted(request.completed)
      IN  /\ \A i \in 1..Len(response.items) :
               /\ response.items[i] = todos[response.items[i].id]
               /\ HasValue(request.completed)
                    => response.items[i].isCompleted = Value(request.completed)
          /\ (request.page = 1 /\ Cardinality(matching) <= AskedPageSize(request))
               => ItemIds(response.items) = matching
          /\ ~HasValue(request.completed) => matching = DOMAIN todos

\* page 1 of the open todos was served while a completed todo was stored
C5_Witness ==
    /\ Listed
    /\ response.request.completed = Some(FALSE)
    /\ response.request.page = 1
    /\ Len(response.items) = 1
    /\ \E id \in DOMAIN todos : todos[id].isCompleted

-----------------------------------------------------------------------------
(* C6 *)

\* C6: for every GET /api/todos?q=s with non-empty s, the response contains
\* (up to the page size) exactly the todos whose title or notes contain s
\* ignoring letter case: a todo whose title and notes both lack s is never
\* returned, and a todo that matches only through its notes is returned.
C6_SearchFilter ==
    (Listed /\ HasValue(response.request.q) /\ Value(response.request.q) /= <<>>) =>
      LET request == response.request
          matching == { id \in MatchingCompleted(request.completed) :
                          MatchesSearch(todos[id], Value(request.q)) }
      IN  /\ \A i \in 1..Len(response.items) :
               MatchesSearch(response.items[i], Value(request.q))
          /\ (request.page = 1 /\ Cardinality(matching) <= AskedPageSize(request))
               => ItemIds(response.items) = matching

-----------------------------------------------------------------------------
(* C7 *)

\* C7: for every GET /api/todos?sort=due, todos that have a due date appear
\* in ascending due-date order (soonest first) and every todo without a due
\* date appears after all todos that have one.
C7_SortByDue ==
    (Listed /\ response.request.sort = Some("due")) =>
      \A i, j \in 1..Len(response.items) :
        (i < j /\ HasValue(response.items[j].dueDate)) =>
          /\ HasValue(response.items[i].dueDate)
          /\ Value(response.items[i].dueDate) <= Value(response.items[j].dueDate)

-----------------------------------------------------------------------------
(* C8 *)

\* C8: every GET /api/todos response carries an X-Total-Count header equal to
\* the number of stored todos that match the request's completed filter,
\* counted over all pages: the value does not depend on page or pageSize and
\* can exceed the number of items in the response body.
C8_TotalCount ==
    response.op = "LIST" =>
      /\ HasValue(response.total)
      /\ Value(response.total) =
           Cardinality(MatchingCompleted(response.request.completed))

-----------------------------------------------------------------------------
(* C10 *)

\* the completed filter the URL's status stands for
CompletedOf(status) ==
    CASE status = "open" -> Some(FALSE)
      [] status = "done" -> Some(TRUE)
      [] OTHER -> Null

\* no request, refetch or filter effect of the client is outstanding
Settled == queryState = "idle" /\ pending = {} /\ ~effectPending

\* the collection holds exactly the rows the server returns for page 1 with
\* page size 100 and the URL's filters
C10_Mirrors ==
    LET matching == MatchingCompleted(CompletedOf(search.status))
    IN  /\ DOMAIN todoCollection = matching
        /\ \A id \in matching : todoCollection[id] = todos[id]

-----------------------------------------------------------------------------
(* C11 *)

\* the ids of the create requests of the form that are in flight
CreatesInFlight(ops) == { op.id : op \in { o \in ops : o.kind = "create" } }

\* what the claim says of the rendered button in a state
C11_Disabled ==
    /\ disableWhenInvalid =>
         ((~createForm.canSubmit \/ createForm.isSubmitting) => submitButton.isDisabled)
    /\ ~disableWhenInvalid => (submitButton.isDisabled <=> createForm.isSubmitting)

\* C11: with disableWhenInvalid at its default (true) the submit button is
\* disabled whenever the form cannot submit or a submission is in progress;
\* with disableWhenInvalid false it is disabled exactly while a submission is
\* in progress; and no press of the button starts a submission while one is
\* in flight.
C11_SubmitButton ==
    [][ /\ C11_Disabled
        /\ C11_Disabled'
        /\ CreatesInFlight(pending') \ CreatesInFlight(pending) /= {}
             => (~createForm.isSubmitting /\ CreatesInFlight(pending) = {})
      ]_vars

\* a submission is in flight while the title field holds a valid title, and
\* the default button is disabled
C11_Witness ==
    /\ disableWhenInvalid
    /\ createForm.isSubmitting
    /\ createForm.canSubmit
    /\ CreatesInFlight(pending) /= {}
    /\ submitButton.isDisabled

-----------------------------------------------------------------------------
(* C12 *)

\* the resource leaves the waiting state in this step
Starts(name) == resources[name] = "Waiting" /\ resources'[name] /= "Waiting"

\* C12: in the AppHost the server is not started before the SQL database
\* resource is ready, and neither clientgen nor webfrontend is started before
\* the server is ready: the client generation of startup runs only once the
\* API is reachable.
C12_StartOrder ==
    [][ /\ Starts("server") => resources["database"] = "Healthy"
        /\ Starts("clientgen") => resources["server"] = "Healthy"
        /\ Starts("webfrontend") => resources["server"] = "Healthy"
      ]_vars

\* the client generation is under way next to a healthy server, the web
\* frontend has not started yet
C12_Witness ==
    /\ resources["clientgen"] = "Running"
    /\ resources["server"] = "Healthy"
    /\ resources["database"] = "Healthy"
    /\ resources["webfrontend"] = "Waiting"

-----------------------------------------------------------------------------
(* C13 *)

\* the command was executed: its inputs
Executed == commandResult.outcome /= "none"
CommandInput == commandResult.inputs[1]

\* what holds of the command whatever Process.Start does
C13_Frame ==
    /\ commandState = "Enabled" <=> apiEndpointAllocated
    /\ Executed =>
         /\ commandResult.outcome = "Success" =>
              /\ commandResult.started
              /\ CommandInput.start = "started"
              /\ CommandInput.exitCode = 0
         /\ (~CommandInput.directoryExists \/ Blank(CommandInput.apiUrl))
              => (commandResult.outcome = "Failure" /\ ~commandResult.started)
         /\ (commandResult.started /\ CommandInput.exitCode /= 0) =>
              /\ commandResult.outcome = "Failure"
              /\ ~Blank(Some(CommandInput.errorOutput))
                   => IsTrimOf(commandResult.message, CommandInput.errorOutput)

\* the process could be started: the directory and the URL are there
Startable == CommandInput.directoryExists /\ ~Blank(CommandInput.apiUrl)

\* C13 as stated: the "Generate API client" command is enabled exactly when
\* the API endpoint is allocated; executing it returns Success only if pnpm
\* openapi-ts was started and exited with code 0, and returns a Failure result
\* when the frontend directory is missing, the endpoint URL is blank, the
\* process cannot be started, or the exit code is non-zero (with the trimmed
\* stderr text as message when stderr is non-blank).
C13_FailureWheneverNotStarted ==
    /\ C13_Frame
    /\ (Executed /\ CommandInput.start /= "started") => commandResult.outcome = "Failure"

\* C13, amended: as stated, but a Failure result for a process that cannot be
\* started is returned only when Process.Start returns null; when
\* Process.Start throws, the exception leaves RunOpenApiTsAsync and no
\* result is returned.
C13_FailureWhenStartReturnsNull ==
    /\ C13_Frame
    /\ (Executed /\ Startable /\ CommandInput.start = "null")
         => commandResult.outcome = "Failure"
    /\ (Executed /\ Startable /\ CommandInput.start = "throws")
         => commandResult.outcome = "Exception"

\* the command ran pnpm, which exited with a non-zero code and wrote to stderr
C13_Witness ==
    /\ Executed
    /\ commandResult.started
    /\ CommandInput.exitCode /= 0
    /\ commandResult.message = <<"e">>
    /\ commandResult.openApiUrl = <<"u", "/openapi/v1.json">>
    /\ CommandInput.apiUrl = Some(<<"u", "/">>)

-----------------------------------------------------------------------------
(* C14 *)

\* the effective page of a request
AskedPage(request) == IF request.page < 1 THEN 1 ELSE request.page

\* the number of positions (page-1)*size .. page*size-1 that a list of
\* n items has, (page-1)*size being the mathematical product
Window(page, size, n) ==
    IF page - 1 >= n THEN 0
    ELSE IF (page - 1) * size >= n THEN 0
    ELSE IF n - (page - 1) * size < size THEN n - (page - 1) * size ELSE size

\* C14: for every GET /api/todos and every 32-bit page and pageSize the
\* request is answered with the items at positions (page-1)*size through
\* page*size-1 of the filtered, sorted list, for the effective page (1 when
\* page < 1) and the effective size (20 when pageSize < 1, else
\* min(pageSize, 100)), (page-1)*size being the mathematical product; the
\* body never holds more than 100 items.
C14_Window ==
    response.op = "LIST" =>
      LET request == response.request
          matching == MatchingCompleted(request.completed)
      IN  /\ response.status = 200
          /\ Len(response.items) <= 100
          /\ ItemIds(response.items) \subseteq matching
          /\ Cardinality(ItemIds(response.items)) = Len(response.items)
          /\ Len(response.items) =
               Window(AskedPage(request), AskedPageSize(request), Cardinality(matching))

-----------------------------------------------------------------------------
(* C15 *)

\* the response is page number page of a walk through the pages
IsPage(r, page) == r.op = "LIST" /\ r.status = 200 /\ r.request.page = page

\* C15: with no write between the requests, and the same completed filter,
\* sort key and pageSize, the pages 1, 2, ... hold every matching todo
\* exactly once: a todo of page 1 is not on page 2, and when two pages are
\* enough for the matching todos the two pages hold them all, also when
\* todos share the value of the sort key.
C15_PagesPartition ==
    [][ ( /\ IsPage(response, 1)
          /\ IsPage(response', 2)
          /\ response'.request = [response.request EXCEPT !.page = 2]
          /\ todos' = todos )
        => /\ ItemIds(response.items) \cap ItemIds(response'.items) = {}
           /\ Cardinality(MatchingCompleted(response.request.completed))
                <= 2 * AskedPageSize(response.request)
                => ItemIds(response.items) \cup ItemIds(response'.items)
                     = MatchingCompleted(response.request.completed)
      ]_vars

-----------------------------------------------------------------------------
(* C16 *)

\* C16: a request answered with 404 or 400 (GET, PATCH, DELETE or restore on
\* an id with no stored todo, POST or PATCH with a title that is blank after
\* trimming, whatever else the body supplies) leaves every stored todo as it
\* was, its updatedAt included, and gives out no id.
C16_RejectedLeavesStore ==
    [][ response'.status \in {400, 404} => (todos' = todos /\ nextId' = nextId) ]_vars

\* a PATCH with a blank title and other fields was answered 400 at a time
\* later than the todo's last update
C16_Witness ==
    /\ response.op = "PATCH"
    /\ response.status = 400
    /\ HasValue(response.request.notes)
    /\ HasValue(response.request.sortOrder)
    /\ response.id \in DOMAIN todos
    /\ todos[response.id].updatedAt < clock
    /\ todos[response.id].sortOrder = 0

-----------------------------------------------------------------------------
(* C17 *)

\* C17: in every reachable state, after any sequence of POST, PATCH, DELETE
\* and restore requests, every stored todo has a title that is not empty, not
\* all white space, and has no leading or trailing white space.
C17_TitlesAreTrimmed ==
    \A id \in DOMAIN todos :
      LET title == todos[id].title
      IN  /\ title /= <<>>
          /\ \E k \in 1..Len(title) : title[k] /= " "
          /\ title[1] /= " "
          /\ title[Len(title)] /= " "

\* a todo created with a title in white space was renamed by a PATCH whose
\* title was in white space too
C17_Witness ==
    /\ response.op = "PATCH"
    /\ response.status = 200
    /\ response.request.title = Some(<<" ", "a", " ">>)
    /\ \E id \in DOMAIN todos : id /= response.id /\ todos[id].title = <<"a">>
    /\ response.id \in DOMAIN todos
    /\ todos[response.id].title = <<"a">>
    /\ todos[response.id].updatedAt > todos[response.id].createdAt

-----------------------------------------------------------------------------
(* C18 *)

\* the step is a PATCH of a stored todo answered 200
Updated ==
    /\ clock' = clock
    /\ response'.op = "PATCH"
    /\ response'.status = 200
    /\ response'.id \in DOMAIN todos

\* the step hands a mutation to onUpdate
Mutates == mutation' /= mutation

\* C18: a PATCH with clearDueDate = true sets the due date to none even when
\* the body supplies a dueDate; with clearDueDate = false the due date becomes
\* the supplied dueDate when one is given and is left unchanged otherwise.
\* The client's update request has clearDueDate = true exactly when the
\* change sets dueDate to null, and false when the change does not touch
\* dueDate.
C18_ClearDueDate ==
    [][ /\ Updated =>
             LET request == response'.request
                 old == todos[response'.id]
                 new == todos'[response'.id]
             IN  new.dueDate = IF request.clearDueDate THEN Null
                               ELSE IF HasValue(request.dueDate) THEN request.dueDate
                               ELSE old.dueDate
        /\ Mutates =>
             LET changes == mutation'.changes
             IN  /\ response'.op = "PATCH"
                 /\ response'.request.clearDueDate <=>
                      ("dueDate" \in DOMAIN changes /\ changes.dueDate = Null)
                 /\ "dueDate" \notin DOMAIN changes => ~response'.request.clearDueDate
      ]_vars

\* a PATCH with clearDueDate = true and a dueDate in its body left the todo
\* without due date
C18_Witness ==
    /\ response.op = "PATCH"
    /\ response.status = 200
    /\ response.request.clearDueDate
    /\ response.request.dueDate = Some(2)
    /\ response.id \in DOMAIN todos
    /\ todos[response.id].dueDate = Null
    /\ todos[response.id].updatedAt > todos[response.id].createdAt

-----------------------------------------------------------------------------
(* C20 *)

\* the mutation of a toggle: the draft assigned isCompleted and updatedAt
Toggles ==
    /\ Mutates
    /\ DOMAIN mutation'.changes \subseteq {"isCompleted", "updatedAt"}
    /\ "isCompleted" \in DOMAIN mutation'.changes

\* C20: toggling the checkbox of a todo in the list sends one PATCH for the
\* todo's id whose only effective change is isCompleted = the new value of
\* the checkbox: after it succeeds, the title, notes, due date and sortOrder
\* the server stores are what they were before the toggle, and no other todo
\* changes.
C20_ToggleFrame ==
    [][ Toggles =>
          LET id == mutation'.key
              nextValue == mutation'.changes.isCompleted
          IN  /\ response'.op = "PATCH"
              /\ response'.id = id
              /\ response'.request.isCompleted = Some(nextValue)
              /\ \A other \in DOMAIN todos \ {id} :
                   other \in DOMAIN todos' /\ todos'[other] = todos[other]
              /\ Success(response'.status) =>
                   /\ todos'[id].isCompleted = nextValue
                   /\ todos'[id].title = todos[id].title
                   /\ todos'[id].notes = todos[id].notes
                   /\ todos'[id].dueDate = todos[id].dueDate
                   /\ todos'[id].sortOrder = todos[id].sortOrder
      ]_vars

\* the checkbox of a todo with notes, a due date and a sortOrder was ticked
\* in the list and the PATCH succeeded
C20_Witness ==
    /\ DOMAIN mutation.changes = {"isCompleted", "updatedAt"}
    /\ mutation.changes.isCompleted
    /\ response.op = "PATCH"
    /\ response.status = 200
    /\ response.id = mutation.key
    /\ response.id \in DOMAIN todos
    /\ todos[response.id].isCompleted
    /\ todos[response.id].dueDate = Some(1)
    /\ todos[response.id].notes = Some(<<"b">>)
    /\ todos[response.id].sortOrder = 1

-----------------------------------------------------------------------------
(* C19 *)

Letter(c) == CASE c = "a" -> 1 [] c = "b" -> 2 [] OTHER -> 0

\* title s comes strictly before title t in alphabetical order
TitleBelow(s, t) ==
    \E k \in 0..Len(s) :
      /\ k <= Len(t)
      /\ \A i \in 1..k : s[i] = t[i]
      /\ IF k = Len(s) THEN k < Len(t)
         ELSE k < Len(t) /\ Letter(s[k + 1]) < Letter(t[k + 1])

\* todo a must come after todo b in the order the claim gives for the sort value
MustFollow(a, b, sort) ==
    IF sort = Some("createdAt") THEN a.createdAt > b.createdAt
    ELSE IF sort = Some("title") THEN TitleBelow(b.title, a.title)
    ELSE IF sort = Some("-title") THEN TitleBelow(a.title, b.title)
    ELSE IF sort = Some("order") THEN a.sortOrder > b.sortOrder
    ELSE IF sort = Some("-order") THEN a.sortOrder < b.sortOrder
    ELSE a.createdAt < b.createdAt

-----------------------------------------------------------------------------
(* C21 *)

\* the update and delete requests of the list's handlers that are in flight
RowRequests == { op \in pending : op.kind \in {"update", "delete"} /\ op.phase = "sent" }

\* C21: the checkbox and the Edit and Delete buttons of a todo are disabled
\* throughout the time an update or delete request started from the list for
\* that todo is in flight, also when a request for another todo is started or
\* completes in the meantime.  Stated for a handler that stays at its await
\* until the request has ended: every todo with such a request in flight has
\* an active row.
C21_RowDisabledWhileInFlight ==
    awaitsTransaction => \A op \in RowRequests : IsActive(op.id)


-----------------------------------------------------------------------------
(* C22 *)

\* the delete request of todo id got a successful response
DeleteSucceeded(id) ==
    \E op \in pending :
        op.kind = "delete" /\ op.id = id /\ op.phase = "syncing" /\ Success(op.status)

\* C22: a "Moved to trash" toast with its Undo is added only after the delete
\* request for that todo has succeeded, never when it failed: whenever a
\* toast for a todo appears, the successful response to the delete request
\* of that todo has arrived before.
C22_ToastOnlyAfterDelete ==
    [][ \A id \in toasts' \ toasts : DeleteSucceeded(id) ]_vars


-----------------------------------------------------------------------------
(* C23 *)

\* the query of the URL, trimmed
TrimmedQuery == Trim(search.q)

\* the todo passes the status filter of the URL
MatchesStatus(item) ==
    \/ search.status = "all"
    \/ search.status = "open" /\ ~item.isCompleted
    \/ search.status = "done" /\ item.isCompleted

\* the title, a space and the notes of the todo, the notes empty when absent
TitleAndNotes(item) ==
    item.title \o <<" ">> \o (IF HasValue(item.notes) THEN Value(item.notes) ELSE <<>>)

\* a may stand before b in the list sorted by due date: todos with a due
\* date first, in ascending order of due date, ties by createdAt descending
DueOrder(a, b) ==
    IF HasValue(a.dueDate) /\ HasValue(b.dueDate)
    THEN \/ Value(a.dueDate) < Value(b.dueDate)
         \/ Value(a.dueDate) = Value(b.dueDate) /\ a.createdAt >= b.createdAt
    ELSE IF HasValue(a.dueDate) THEN TRUE
    ELSE IF HasValue(b.dueDate) THEN FALSE
    ELSE a.createdAt >= b.createdAt

\* shown holds each todo of the collection that matches at most once and no
\* other, in the order of the sort of the URL
Displays(shown, Matches(_)) ==
    /\ Range(shown) = { todoCollection[id] :
                          id \in { i \in DOMAIN todoCollection :
                                     Matches(todoCollection[i]) } }
    /\ \A i, j \in DOMAIN shown : i /= j => shown[i] /= shown[j]
    /\ \A i, j \in DOMAIN shown :
         i < j => IF search.sort = "newest"
                  THEN shown[i].createdAt >= shown[j].createdAt
                  ELSE DueOrder(shown[i], shown[j])

\* C23, as stated: the displayed list holds exactly the todos of the
\* collection that match the status filter and, when the trimmed query is not
\* empty, whose title or whose notes contain the query ignoring case; sort
\* newest shows them in createdAt-descending order, sort due shows todos with
\* a due date first in ascending due-date order, then those without, ties
\* broken by createdAt descending.
C23_TitleOrNotesContain ==
    \A rows \in LiveQuery :
        Displays(VisibleTodos(rows, search),
                 LAMBDA item : /\ MatchesStatus(item)
                               /\ TrimmedQuery /= <<>>
                                    => MatchesSearch(item, TrimmedQuery))

\* C23, amended: as stated, but a todo matches a non-empty trimmed query when
\* the query is contained, ignoring case, in the todo's title and notes
\* joined by one space (the notes empty when absent).
C23_TitleAndNotesContain ==
    \A rows \in LiveQuery :
        Displays(VisibleTodos(rows, search),
                 LAMBDA item : /\ MatchesStatus(item)
                               /\ TrimmedQuery /= <<>>
                                    => ContainsIgnoreCase(TitleAndNotes(item),
                                                          TrimmedQuery))

\* sorted by due date and searched with a query, the list shows a todo with
\* a due date before a newer todo without one
C23_Witness ==
    /\ search.sort = "due"
    /\ TrimmedQuery /= <<>>
    /\ \E rows \in LiveQuery :
         LET shown == VisibleTodos(rows, search)
         IN  /\ Len(shown) = 2
             /\ HasValue(shown[1].dueDate) /\ ~HasValue(shown[2].dueDate)
             /\ shown[1].createdAt < shown[2].createdAt

====
